---- MODULE Spec2Model ----
(***************************************************************************)
(* Model of the alephXtf ink! contracts:                                   *)
(*   Escrow        (src/contracts/escrow/lib.rs)                           *)
(*   EtfEscrow     (src/contracts/etf/lib.rs)                              *)
(*   FungibleToken (src/contracts/fungible_token/lib.rs)                   *)
(*   AlephXtf      (src/lib.rs)                                            *)
(*                                                                         *)
(* A message is one atomic step.  An outbound call either returns or       *)
(* traps; a trap, like a panic of the contract itself (checked arithmetic  *)
(* overflow, unwrap of None, index out of bounds), aborts the invocation   *)
(* and the host discards every storage write of it.                        *)
(* A storage Mapping with unwrap_or(0)/unwrap_or_default() reads is a      *)
(* total function whose absent keys read 0.                                *)
(***************************************************************************)
EXTENDS Integers, Sequences, FiniteSets

VARIABLES
    tokens,                     \* Escrow.tokens: Vec<AccountId>
    escrow_balances,            \* Escrow.balances: Mapping<AccountId, Balance>
    admin,                      \* Escrow.admin: AccountId
    escrow_last,                \* the last Escrow message: caller, arguments, outcome
    vaults_quantity,            \* EtfEscrow.vaults_quantity: u8
    required_tokens,            \* EtfEscrow.required_tokens: Vec<AccountId>
    required_balances,          \* EtfEscrow.required_balances: Vec<Balance>
    vaults,                     \* EtfEscrow.vaults: Mapping<u8, AccountId>
    vaults_quantity_per_owner,  \* EtfEscrow.vaults_quantity_per_owner: Mapping<AccountId, u8>
    etf_balances,               \* EtfEscrow.balances: Mapping<AccountId, Balance>
    total_supply,               \* EtfEscrow.total_supply: Balance
    etf_last,                   \* the last EtfEscrow message: caller, arguments, outcome
    etf_prev,                   \* EtfEscrow.balances as they were before the last message
    deployed,                   \* a deployed FungibleToken or AlephXtf: owner, total_supply, balances
    ledgers,                    \* the FungibleToken deployed at each token address the Escrow may call
    token_last,                 \* the last token message: callee, caller, arguments, outcome
    frame                       \* the Escrow::withdraw whose outbound call is in progress, if any

escrow_vars == <<tokens, escrow_balances, admin, escrow_last>>
etf_vars == <<vaults_quantity, required_tokens, required_balances, vaults,
              vaults_quantity_per_owner, etf_balances, total_supply, etf_last, etf_prev>>
token_vars == <<deployed, ledgers, token_last>>
vars == <<tokens, escrow_balances, admin, escrow_last,
          vaults_quantity, required_tokens, required_balances, vaults,
          vaults_quantity_per_owner, etf_balances, total_supply, etf_last, etf_prev,
          deployed, ledgers, token_last, frame>>

(***************************************************************************)
(* Bounds.  Balance is u128 and the vault counters are u8 in the source;   *)
(* the model keeps their overflow behaviour at a smaller width.            *)
(***************************************************************************)
\* largest value of the Balance type in the model (u128::MAX in the source)
BalanceMax == 200
\* largest value of the u8 type in the model (u8::MAX in the source)
U8Max == 2
\* most calls the remote token nests into the Escrow during one outbound call
MaxNested == 2

\* const SHARES: Balance = 100
SHARES == 100

NoAccount == "none"
Users == {"alice", "bob"}
\* token contracts the Escrow may be asked about
EscrowTokens == {"tokenA", "tokenB"}
\* amounts offered to deposit / withdraw
Amounts == {0, 30, 50}
\* whitelists the Escrow is constructed with
Whitelists == {<<"tokenA">>, <<"tokenA", "tokenB">>, <<"tokenA", "tokenA">>}

Range(s) == {s[i] : i \in 1..Len(s)}

\* self.tokens.contains(&token)
contains(list, x) == \E i \in 1..Len(list) : list[i] = x

\* an outbound call built by build_call: callee, selector name, pushed arguments
Call(callee, selector, args) == [callee |-> callee, selector |-> selector, args |-> args]

\* the outcome of a message: storage afterwards, returned value, committed outbound calls
Ret(self, result, calls) == [self |-> self, result |-> result, calls |-> calls]

(***************************************************************************)
(* Escrow                                                                  *)
(***************************************************************************)
EscrowSelf == [tokens |-> tokens, balances |-> escrow_balances, admin |-> admin]

\* Escrow::new
escrow_new(supported_tokens, caller) ==
    [tokens |-> supported_tokens,
     balances |-> [t \in EscrowTokens |-> 0],
     admin |-> caller]

\* Escrow::get_balance
get_balance(self, token) == self.balances[token]

\* deposit storing the amount in place of balance + amount
deposit_overwrites(self, caller, token, amount, call_traps) ==
    IF ~contains(self.tokens, token) THEN Ret(self, "UnsupportedToken", <<>>)
    ELSE IF call_traps THEN Ret(self, "Trap", <<>>)
    ELSE LET balance == get_balance(self, token) IN
         IF balance + amount > BalanceMax THEN Ret(self, "Panic", <<>>)
         ELSE Ret([self EXCEPT !.balances[token] = amount], "Ok",
                  <<Call(token, "transfer", <<caller, amount>>)>>)

\* deposit without the whitelist check
deposit_unchecked(self, caller, token, amount, call_traps) ==
    IF call_traps THEN Ret(self, "Trap", <<>>)
    ELSE LET balance == get_balance(self, token) IN
         IF balance + amount > BalanceMax THEN Ret(self, "Panic", <<>>)
         ELSE Ret([self EXCEPT !.balances[token] = balance + amount], "Ok",
                  <<Call(token, "transfer", <<caller, amount>>)>>)

\* Escrow::deposit
deposit(self, caller, token, amount, call_traps) ==
    IF ~contains(self.tokens, token) THEN Ret(self, "UnsupportedToken", <<>>)
    ELSE IF call_traps THEN Ret(self, "Trap", <<>>)
    ELSE LET balance == get_balance(self, token) IN
         IF balance + amount > BalanceMax THEN Ret(self, "Panic", <<>>)
         ELSE Ret([self EXCEPT !.balances[token] = balance + amount], "Ok",
                  <<Call(token, "transfer", <<caller, amount>>)>>)

\* withdraw checking the whitelist before the admin
withdraw_token_first(self, caller, token, amount, call_traps) ==
    IF ~contains(self.tokens, token) THEN Ret(self, "UnsupportedToken", <<>>)
    ELSE IF caller # self.admin THEN Ret(self, "TransferFailed", <<>>)
    ELSE LET balance == get_balance(self, token) IN
         IF balance < amount THEN Ret(self, "InsufficientBalance", <<>>)
         ELSE IF call_traps THEN Ret(self, "Trap", <<>>)
         ELSE Ret([self EXCEPT !.balances[token] = balance - amount], "Ok",
                  <<Call(token, "transfer", <<caller, amount>>)>>)

\* withdraw refusing a withdrawal of the whole balance (<= in place of <)
withdraw_off_by_one(self, caller, token, amount, call_traps) ==
    IF caller # self.admin THEN Ret(self, "TransferFailed", <<>>)
    ELSE IF ~contains(self.tokens, token) THEN Ret(self, "UnsupportedToken", <<>>)
    ELSE LET balance == get_balance(self, token) IN
         IF balance <= amount THEN Ret(self, "InsufficientBalance", <<>>)
         ELSE IF call_traps THEN Ret(self, "Trap", <<>>)
         ELSE Ret([self EXCEPT !.balances[token] = balance - amount], "Ok",
                  <<Call(token, "transfer", <<caller, amount>>)>>)

\* Escrow::withdraw
withdraw(self, caller, token, amount, call_traps) ==
    IF caller # self.admin THEN Ret(self, "TransferFailed", <<>>)
    ELSE IF ~contains(self.tokens, token) THEN Ret(self, "UnsupportedToken", <<>>)
    ELSE LET balance == get_balance(self, token) IN
         IF balance < amount THEN Ret(self, "InsufficientBalance", <<>>)
         ELSE IF call_traps THEN Ret(self, "Trap", <<>>)
         ELSE Ret([self EXCEPT !.balances[token] = balance - amount], "Ok",
                  <<Call(token, "transfer", <<caller, amount>>)>>)

\* the withdraw_all loop without the write that zeroes the balance
RECURSIVE withdraw_all_loop_keeps(_, _, _, _)
withdraw_all_loop_keeps(self, caller, i, calls) ==
    IF i > Len(self.tokens) THEN Ret(self, "Ok", calls)
    ELSE LET token == self.tokens[i]
             balance == get_balance(self, token)
         IN  IF balance > 0
             THEN withdraw_all_loop_keeps(self, caller, i + 1,
                                    Append(calls, Call(token, "transfer", <<caller, balance>>)))
             ELSE withdraw_all_loop_keeps(self, caller, i + 1, calls)

\* the loop of Escrow::withdraw_all from position i on
RECURSIVE withdraw_all_loop(_, _, _, _)
withdraw_all_loop(self, caller, i, calls) ==
    IF i > Len(self.tokens) THEN Ret(self, "Ok", calls)
    ELSE LET token == self.tokens[i]
             balance == get_balance(self, token)
         IN  IF balance > 0
             THEN withdraw_all_loop([self EXCEPT !.balances[token] = 0], caller, i + 1,
                                    Append(calls, Call(token, "transfer", <<caller, balance>>)))
             ELSE withdraw_all_loop(self, caller, i + 1, calls)

\* Escrow::withdraw_all
withdraw_all(self, caller, call_traps) ==
    IF caller # self.admin THEN Ret(self, "TransferFailed", <<>>)
    ELSE LET r == withdraw_all_loop(self, caller, 1, <<>>) IN
         IF call_traps /\ r.calls # <<>> THEN Ret(self, "Trap", <<>>) ELSE r

\* set_admin without the caller check
set_admin_unchecked(self, caller, new_admin) ==
    Ret([self EXCEPT !.admin = new_admin], "Unit", <<>>)

\* Escrow::set_admin
set_admin(self, caller, new_admin) ==
    IF caller = self.admin THEN Ret([self EXCEPT !.admin = new_admin], "Unit", <<>>)
    ELSE Ret(self, "Unit", <<>>)

(***************************************************************************)
(* EtfEscrow                                                               *)
(***************************************************************************)
\* token contracts named by the baskets
EtfTokens == {"tokenX", "tokenY"}
\* keys of EtfEscrow.balances: one table holds pool shares and collateral
EtfAccounts == Users \cup EtfTokens
\* accounts that send messages to the EtfEscrow (a token contract may call too)
EtfCallers == Users \cup {"tokenX"}
\* self.env().account_id()
EtfAccount == "etf"
\* values offered to transfer / transfer_from
Values == {0, SHARES}
\* (required_tokens, required_balances) the EtfEscrow is constructed with
Baskets ==
    { <<(<<"tokenX", "tokenY">>), (<<0, 0>>)>>,
      <<(<<"tokenX", "tokenY">>), (<<0, 40>>)>>,
      <<(<<"tokenX">>), (<<40>>)>>,
      <<(<<"tokenX">>), (<<100>>)>>,
      <<(<<"tokenX">>), (<<0, 40>>)>>,
      <<(<<"tokenX">>), (<<>>)>> }

\* the outcome of a message that returns a value inside Ok
RetV(self, result, value, calls) ==
    [self |-> self, result |-> result, value |-> value, calls |-> calls]

Aborted(r) == r.result \in {"Trap", "Panic"}

EtfSelf ==
    [vaults_quantity |-> vaults_quantity,
     required_tokens |-> required_tokens,
     required_balances |-> required_balances,
     vaults |-> vaults,
     vaults_quantity_per_owner |-> vaults_quantity_per_owner,
     balances |-> etf_balances,
     total_supply |-> total_supply]

\* EtfEscrow::new
etf_new(tokens_arg, balances_arg) ==
    [vaults_quantity |-> 0,
     required_tokens |-> tokens_arg,
     required_balances |-> balances_arg,
     vaults |-> [v \in 0..U8Max |-> NoAccount],
     vaults_quantity_per_owner |-> [o \in Users |-> 0],
     balances |-> [a \in EtfAccounts |-> 0],
     total_supply |-> 0]

\* Erc20::balance_of for EtfEscrow
balance_of(self, owner) == self.balances[owner]

\* the two inserts without the InsufficientBalance check
move_unchecked(self, from, to, value) ==
    LET from_balance == balance_of(self, from)
        to_balance == balance_of(self, to)
        debited == [self EXCEPT !.balances[from] = from_balance - value]
    IN  IF to_balance + value > BalanceMax THEN RetV(self, "Panic", 0, <<>>)
        ELSE LET credited == [debited EXCEPT !.balances[to] = to_balance + value]
             IN  RetV(credited, "Ok", balance_of(credited, from), <<>>)

\* the two inserts shared by transfer and transfer_from: the debit is written
\* first, the credit is computed from the balance read before the debit
move(self, from, to, value) ==
    LET from_balance == balance_of(self, from) IN
    IF from_balance < value THEN RetV(self, "InsufficientBalance", 0, <<>>)
    ELSE LET to_balance == balance_of(self, to)
             debited == [self EXCEPT !.balances[from] = from_balance - value]
         IN  IF to_balance + value > BalanceMax THEN RetV(self, "Panic", 0, <<>>)
             ELSE LET credited == [debited EXCEPT !.balances[to] = to_balance + value]
                  IN  RetV(credited, "Ok", balance_of(credited, from), <<>>)

\* Erc20::transfer for EtfEscrow
transfer(self, caller, to, value) == move(self, caller, to, value)

\* Erc20::transfer_from for EtfEscrow
transfer_from(self, caller, from, to, value) == move(self, from, to, value)

\* the open_vault loop without the InsufficientBalance check
RECURSIVE open_vault_loop_unchecked(_, _, _, _, _)
open_vault_loop_unchecked(self, caller, i, calls, call_traps) ==
    IF i > Len(self.required_tokens) THEN RetV(self, "Ok", 0, calls)
    ELSE LET token == self.required_tokens[i]
             balance == self.balances[token]
         IN  IF i > Len(self.required_balances) THEN RetV(self, "Panic", 0, calls)
             ELSE IF call_traps THEN RetV(self, "Trap", 0, calls)
             ELSE LET escrow_balance == self.balances[token] IN
                  IF escrow_balance + self.required_balances[i] > BalanceMax
                  THEN RetV(self, "Panic", 0, calls)
                  ELSE open_vault_loop_unchecked(
                          [self EXCEPT !.balances[token] =
                                           escrow_balance + self.required_balances[i]],
                          caller, i + 1,
                          Append(calls, Call(token, "transfer_from",
                                             <<caller, EtfAccount, balance>>)),
                          call_traps)

\* the open_vault loop checking the balance of the first required token only
RECURSIVE open_vault_loop_first_only(_, _, _, _, _)
open_vault_loop_first_only(self, caller, i, calls, call_traps) ==
    IF i > Len(self.required_tokens) THEN RetV(self, "Ok", 0, calls)
    ELSE LET token == self.required_tokens[i]
             balance == self.balances[token]
         IN  IF i > Len(self.required_balances) THEN RetV(self, "Panic", 0, calls)
             ELSE IF i = 1 /\ balance < self.required_balances[i]
                  THEN RetV(self, "InsufficientBalance", 0, calls)
             ELSE IF call_traps THEN RetV(self, "Trap", 0, calls)
             ELSE LET escrow_balance == self.balances[token] IN
                  IF escrow_balance + self.required_balances[i] > BalanceMax
                  THEN RetV(self, "Panic", 0, calls)
                  ELSE open_vault_loop_first_only(
                          [self EXCEPT !.balances[token] =
                                           escrow_balance + self.required_balances[i]],
                          caller, i + 1,
                          Append(calls, Call(token, "transfer_from",
                                             <<caller, EtfAccount, balance>>)),
                          call_traps)

\* the basket loop of EtfEscrow::open_vault from position i on
RECURSIVE open_vault_loop(_, _, _, _, _)
open_vault_loop(self, caller, i, calls, call_traps) ==
    IF i > Len(self.required_tokens) THEN RetV(self, "Ok", 0, calls)
    ELSE LET token == self.required_tokens[i]
             balance == self.balances[token]
         IN  IF i > Len(self.required_balances) THEN RetV(self, "Panic", 0, calls)
             ELSE IF balance < self.required_balances[i]
                  THEN RetV(self, "InsufficientBalance", 0, calls)
             ELSE IF call_traps THEN RetV(self, "Trap", 0, calls)
             ELSE LET escrow_balance == self.balances[token] IN
                  IF escrow_balance + self.required_balances[i] > BalanceMax
                  THEN RetV(self, "Panic", 0, calls)
                  ELSE open_vault_loop(
                          [self EXCEPT !.balances[token] =
                                           escrow_balance + self.required_balances[i]],
                          caller, i + 1,
                          Append(calls, Call(token, "transfer_from",
                                             <<caller, EtfAccount, balance>>)),
                          call_traps)

\* EtfEscrow::open_vault, lines 152-157: the vault is registered under the counter
register(self, owner) ==
    LET new_vault == self.vaults_quantity
        registered == [self EXCEPT !.vaults[new_vault] = owner]
        vaults_quantity_of_owner == self.vaults_quantity_per_owner[owner]
    IN  IF registered.vaults_quantity + 1 > U8Max THEN RetV(self, "Panic", 0, <<>>)
        ELSE IF vaults_quantity_of_owner + 1 > U8Max THEN RetV(self, "Panic", 0, <<>>)
        ELSE RetV([registered EXCEPT
                      !.vaults_quantity = @ + 1,
                      !.vaults_quantity_per_owner[owner] = vaults_quantity_of_owner + 1],
                  "Ok", new_vault, <<>>)

\* EtfEscrow::open_vault, lines 159-161: the shares are credited to the caller
mint(self, caller) ==
    LET caller_balance == self.balances[caller] IN
    IF caller_balance + SHARES > BalanceMax THEN RetV(self, "Panic", 0, <<>>)
    ELSE RetV([self EXCEPT !.balances[caller] = caller_balance + SHARES], "Ok", 0, <<>>)

\* EtfEscrow::open_vault
open_vault(self, caller, owner, vault, call_traps) ==
    IF self.vaults[vault] # NoAccount THEN RetV(self, "VaultAlreadyExists", 0, <<>>)
    ELSE LET l == open_vault_loop(self, caller, 1, <<>>, call_traps) IN
         IF Aborted(l) THEN RetV(self, l.result, 0, <<>>)
         ELSE IF l.result # "Ok" THEN l
         ELSE LET r == register(l.self, owner) IN
              IF Aborted(r) THEN RetV(self, r.result, 0, <<>>)
              ELSE LET m == mint(r.self, caller) IN
                   IF Aborted(m) THEN RetV(self, m.result, 0, <<>>)
                   ELSE RetV(m.self, "Ok", r.value, l.calls)

\* the basket loop of EtfEscrow::close_vault from position i on
RECURSIVE close_vault_loop(_, _, _, _, _)
close_vault_loop(self, caller, i, calls, call_traps) ==
    IF i > Len(self.required_tokens) THEN RetV(self, "Ok", 0, calls)
    ELSE LET token == self.required_tokens[i] IN
         IF i > Len(self.required_balances) THEN RetV(self, "Panic", 0, calls)
         ELSE IF call_traps THEN RetV(self, "Trap", 0, calls)
         ELSE LET escrow_balance == self.balances[token] IN
              IF escrow_balance - self.required_balances[i] < 0
              THEN RetV(self, "Panic", 0, calls)
              ELSE close_vault_loop(
                      [self EXCEPT !.balances[token] =
                                       escrow_balance - self.required_balances[i]],
                      caller, i + 1,
                      Append(calls, Call(token, "transfer_from",
                                         <<EtfAccount, caller, self.required_balances[i]>>)),
                      call_traps)

\* unregister that also lowers the vault counter
unregister_lowers_counter(self, vault, owner) ==
    LET removed == [self EXCEPT !.vaults[vault] = NoAccount]
        vaults_quantity_of_owner == removed.vaults_quantity_per_owner[owner]
    IN  IF vaults_quantity_of_owner - 1 < 0 THEN RetV(self, "Panic", 0, <<>>)
        ELSE RetV([removed EXCEPT !.vaults_quantity_per_owner[owner] =
                                      vaults_quantity_of_owner - 1,
                                  !.vaults_quantity = @ - 1],
                  "Ok", 0, <<>>)

\* unregister without the decrement of the owner's count
unregister_keeps_count(self, vault, owner) ==
    RetV([self EXCEPT !.vaults[vault] = NoAccount], "Ok", 0, <<>>)

\* EtfEscrow::close_vault, lines 202-205: the vault leaves the registry
unregister(self, vault, owner) ==
    LET removed == [self EXCEPT !.vaults[vault] = NoAccount]
        vaults_quantity_of_owner == removed.vaults_quantity_per_owner[owner]
    IN  IF vaults_quantity_of_owner - 1 < 0 THEN RetV(self, "Panic", 0, <<>>)
        ELSE RetV([removed EXCEPT !.vaults_quantity_per_owner[owner] =
                                      vaults_quantity_of_owner - 1],
                  "Ok", 0, <<>>)

\* close_vault without the check of the caller's shares
close_vault_unchecked(self, caller, vault, call_traps) ==
    LET owner == self.vaults[vault] IN
    IF owner = NoAccount THEN RetV(self, "Panic", 0, <<>>)
    ELSE LET burnt == transfer(self, caller, caller, SHARES) IN
         IF Aborted(burnt) THEN RetV(self, burnt.result, 0, <<>>)
         ELSE LET l == close_vault_loop(burnt.self, caller, 1, <<>>, call_traps) IN
              IF Aborted(l) THEN RetV(self, l.result, 0, <<>>)
              ELSE LET u == unregister(l.self, vault, owner) IN
                   IF Aborted(u) THEN RetV(self, u.result, 0, <<>>)
                   ELSE RetV(u.self, "Ok", 0, l.calls)

\* EtfEscrow::close_vault
close_vault(self, caller, vault, call_traps) ==
    LET owner == self.vaults[vault] IN
    IF owner = NoAccount THEN RetV(self, "Panic", 0, <<>>)
    ELSE LET caller_shares_balance == self.balances[caller] IN
         IF caller_shares_balance < SHARES THEN RetV(self, "InsufficientBalance", 0, <<>>)
         ELSE LET burnt == transfer(self, caller, caller, SHARES) IN
              IF Aborted(burnt) THEN RetV(self, burnt.result, 0, <<>>)
              ELSE LET l == close_vault_loop(burnt.self, caller, 1, <<>>, call_traps) IN
                   IF Aborted(l) THEN RetV(self, l.result, 0, <<>>)
                   ELSE LET u == unregister(l.self, vault, owner) IN
                        IF Aborted(u) THEN RetV(self, u.result, 0, <<>>)
                        ELSE RetV(u.self, "Ok", 0, l.calls)

EtfMsg(op, caller, owner, vault, from, to, value, call_traps, r) ==
    [op |-> op, caller |-> caller, owner |-> owner, vault |-> vault,
     from |-> from, to |-> to, value |-> value, call_traps |-> call_traps,
     result |-> r.result, ret |-> r.value, calls |-> r.calls]

EtfCommit(r) ==
    /\ vaults_quantity' = r.self.vaults_quantity
    /\ required_tokens' = r.self.required_tokens
    /\ required_balances' = r.self.required_balances
    /\ vaults' = r.self.vaults
    /\ vaults_quantity_per_owner' = r.self.vaults_quantity_per_owner
    /\ etf_balances' = r.self.balances
    /\ total_supply' = r.self.total_supply
    /\ etf_prev' = etf_balances

EtfConstructed(self, deployer) ==
    /\ vaults_quantity = self.vaults_quantity
    /\ required_tokens = self.required_tokens
    /\ required_balances = self.required_balances
    /\ vaults = self.vaults
    /\ vaults_quantity_per_owner = self.vaults_quantity_per_owner
    /\ etf_balances = self.balances
    /\ total_supply = self.total_supply
    /\ etf_prev = self.balances
    /\ etf_last = EtfMsg("new", deployer, NoAccount, 0, NoAccount, NoAccount, 0, FALSE,
                         RetV(self, "Ok", 0, <<>>))

(***************************************************************************)
(* FungibleToken and AlephXtf                                              *)
(***************************************************************************)
\* the account of the Escrow contract on a token ledger
EscrowAccount == "escrow"
LedgerAccounts == Users \cup {EscrowAccount}
\* supplies a token is constructed with
Supplies == {0, 100}
\* values offered to mint_to / transfer / transfer_from of a token
TokenValues == {0, 50}
\* amounts offered to the Escrow, and moved by users, on the ledgers it calls
CustodyAmounts == {0, 100}

\* FungibleToken::new
ft_new(supply, caller) ==
    [contract |-> "FungibleToken", owner |-> caller, total_supply |-> supply,
     balances |-> [a \in LedgerAccounts |-> IF a = caller THEN supply ELSE 0]]

\* AlephXtf::new
xtf_new(supply, caller) ==
    [contract |-> "AlephXtf", owner |-> caller, total_supply |-> supply,
     balances |-> [a \in LedgerAccounts |-> IF a = caller THEN supply ELSE 0]]

\* mint_to without the assertion on the caller
mint_to_unchecked(self, caller, to, value) ==
    LET to_balance == balance_of(self, to) IN
    IF to_balance + value > BalanceMax THEN RetV(self, "Panic", 0, <<>>)
    ELSE IF self.total_supply + value > BalanceMax THEN RetV(self, "Panic", 0, <<>>)
    ELSE RetV([self EXCEPT !.balances[to] = to_balance + value,
                           !.total_supply = self.total_supply + value],
              "Unit", 0, <<>>)

\* FungibleToken::mint_to
mint_to(self, caller, to, value) ==
    IF caller # self.owner THEN RetV(self, "Panic", 0, <<>>)
    ELSE LET to_balance == balance_of(self, to) IN
         IF to_balance + value > BalanceMax THEN RetV(self, "Panic", 0, <<>>)
         ELSE IF self.total_supply + value > BalanceMax THEN RetV(self, "Panic", 0, <<>>)
         ELSE RetV([self EXCEPT !.balances[to] = to_balance + value,
                                !.total_supply = self.total_supply + value],
                   "Unit", 0, <<>>)

\* Erc20::transfer for FungibleToken
ft_transfer(self, caller, to, value) == move(self, caller, to, value)

\* Erc20::transfer_from for FungibleToken
ft_transfer_from(self, caller, from, to, value) == move(self, from, to, value)

\* AlephXtf::transfer
xtf_transfer(self, caller, to, value) == move(self, caller, to, value)

\* the ledgers after the outbound calls of one Escrow message from position i on,
\* each call run as Erc20::transfer of the FungibleToken at the callee with the
\* Escrow as caller.  A callee that panics reverts and the call traps; a callee
\* that returns Err changes nothing, and the call traps when the host reports
\* the Err as a revert (err_reverts) and returns otherwise.
RECURSIVE run_calls(_, _, _, _)
run_calls(remote, calls, i, err_reverts) ==
    IF i > Len(calls) THEN [ledgers |-> remote, traps |-> FALSE]
    ELSE LET call == calls[i]
             r == ft_transfer(remote[call.callee], EscrowAccount, call.args[1], call.args[2])
         IN  IF r.result = "Panic" \/ (r.result # "Ok" /\ err_reverts)
             THEN [ledgers |-> remote, traps |-> TRUE]
             ELSE run_calls([remote EXCEPT ![call.callee] = r.self], calls, i + 1, err_reverts)

TokenMsg(op, callee, caller, from, to, value, r) ==
    [op |-> op, callee |-> callee, caller |-> caller, from |-> from, to |-> to,
     value |-> value, result |-> r.result, ret |-> r.value]

\* no token message ran in the last step
NoTokenMsg ==
    [op |-> "none", callee |-> NoAccount, caller |-> NoAccount, from |-> NoAccount,
     to |-> NoAccount, value |-> 0, result |-> "Ok", ret |-> 0]

\* no Escrow::withdraw is waiting for its outbound call
NoFrame ==
    [active |-> FALSE, caller |-> NoAccount, token |-> NoAccount, amount |-> 0,
     balance |-> 0, write |-> 0, deposited |-> 0, withdrawn |-> 0, nested |-> 0,
     saved |-> [tokens |-> <<>>, balances |-> [t \in EscrowTokens |-> 0], admin |-> NoAccount]]

\* no Escrow message ran in the last step
NoEscrowMsg ==
    [op |-> "none", caller |-> NoAccount, token |-> NoAccount, amount |-> 0,
     new_admin |-> NoAccount, call_traps |-> FALSE, result |-> "Ok", calls |-> <<>>]

TokenIdle ==
    /\ deployed = ft_new(0, "alice")
    /\ ledgers = [t \in EscrowTokens |-> ft_new(0, "alice")]
    /\ token_last = NoTokenMsg

\* the contract that a specification does not exercise: constructed, never called
EtfIdle == EtfConstructed(etf_new(<<>>, <<>>), "alice")

EscrowIdle ==
    /\ tokens = <<>>
    /\ escrow_balances = [t \in EscrowTokens |-> 0]
    /\ admin = "alice"
    /\ escrow_last = [op |-> "new", caller |-> "alice", token |-> NoAccount, amount |-> 0,
                      new_admin |-> NoAccount, call_traps |-> FALSE,
                      result |-> "Ok", calls |-> <<>>]

InitEtf ==
    /\ \E basket \in Baskets, deployer \in Users :
          EtfConstructed(etf_new(basket[1], basket[2]), deployer)
    /\ EscrowIdle
    /\ TokenIdle
    /\ frame = NoFrame

OpenVault ==
    \E caller \in EtfCallers, owner \in Users, vault \in 0..U8Max, call_traps \in BOOLEAN :
        LET r == open_vault(EtfSelf, caller, owner, vault, call_traps) IN
        /\ EtfCommit(r)
        /\ etf_last' = EtfMsg("open_vault", caller, owner, vault, NoAccount, NoAccount, 0,
                              call_traps, r)
        /\ UNCHANGED <<frame, escrow_vars, token_vars>>

CloseVault ==
    \E caller \in EtfCallers, vault \in 0..U8Max, call_traps \in BOOLEAN :
        LET r == close_vault(EtfSelf, caller, vault, call_traps) IN
        /\ EtfCommit(r)
        /\ etf_last' = EtfMsg("close_vault", caller, NoAccount, vault, NoAccount, NoAccount, 0,
                              call_traps, r)
        /\ UNCHANGED <<frame, escrow_vars, token_vars>>

Transfer ==
    \E caller \in EtfCallers, to \in EtfCallers, value \in Values :
        LET r == transfer(EtfSelf, caller, to, value) IN
        /\ EtfCommit(r)
        /\ etf_last' = EtfMsg("transfer", caller, NoAccount, 0, NoAccount, to, value, FALSE, r)
        /\ UNCHANGED <<frame, escrow_vars, token_vars>>

TransferFrom ==
    \E caller \in EtfCallers, from \in EtfCallers, to \in EtfCallers, value \in Values :
        LET r == transfer_from(EtfSelf, caller, from, to, value) IN
        /\ EtfCommit(r)
        /\ etf_last' = EtfMsg("transfer_from", caller, NoAccount, 0, from, to, value, FALSE, r)
        /\ UNCHANGED <<frame, escrow_vars, token_vars>>

NextEtf == OpenVault \/ CloseVault \/ Transfer \/ TransferFrom

SpecEtf == InitEtf /\ [][NextEtf]_vars

EscrowMsg(op, caller, token, amount, new_admin, call_traps, r) ==
    [op |-> op, caller |-> caller, token |-> token, amount |-> amount,
     new_admin |-> new_admin, call_traps |-> call_traps,
     result |-> r.result, calls |-> r.calls]

EscrowCommit(r) ==
    /\ tokens' = r.self.tokens
    /\ escrow_balances' = r.self.balances
    /\ admin' = r.self.admin

InitEscrow ==
    /\ \E supported_tokens \in Whitelists, deployer \in Users :
          LET self == escrow_new(supported_tokens, deployer) IN
          /\ tokens = self.tokens
          /\ escrow_balances = self.balances
          /\ admin = self.admin
          /\ escrow_last = EscrowMsg("new", deployer, NoAccount, 0, NoAccount, FALSE,
                                     Ret(self, "Ok", <<>>))
    /\ EtfIdle
    /\ TokenIdle
    /\ frame = NoFrame

Deposit ==
    \E caller \in Users, token \in EscrowTokens, amount \in Amounts, call_traps \in BOOLEAN :
        LET r == deposit(EscrowSelf, caller, token, amount, call_traps) IN
        /\ EscrowCommit(r)
        /\ escrow_last' = EscrowMsg("deposit", caller, token, amount, NoAccount, call_traps, r)
        /\ UNCHANGED <<frame, etf_vars, token_vars>>

Withdraw ==
    \E caller \in Users, token \in EscrowTokens, amount \in Amounts, call_traps \in BOOLEAN :
        LET r == withdraw(EscrowSelf, caller, token, amount, call_traps) IN
        /\ EscrowCommit(r)
        /\ escrow_last' = EscrowMsg("withdraw", caller, token, amount, NoAccount, call_traps, r)
        /\ UNCHANGED <<frame, etf_vars, token_vars>>

WithdrawAll ==
    \E caller \in Users, call_traps \in BOOLEAN :
        LET r == withdraw_all(EscrowSelf, caller, call_traps) IN
        /\ EscrowCommit(r)
        /\ escrow_last' = EscrowMsg("withdraw_all", caller, NoAccount, 0, NoAccount, call_traps, r)
        /\ UNCHANGED <<frame, etf_vars, token_vars>>

SetAdmin ==
    \E caller \in Users, new_admin \in Users :
        LET r == set_admin(EscrowSelf, caller, new_admin) IN
        /\ EscrowCommit(r)
        /\ escrow_last' = EscrowMsg("set_admin", caller, NoAccount, 0, new_admin, FALSE, r)
        /\ UNCHANGED <<frame, etf_vars, token_vars>>

NextEscrow == Deposit \/ Withdraw \/ WithdrawAll \/ SetAdmin

SpecEscrow == InitEscrow /\ [][NextEscrow]_vars

(***************************************************************************)
(* A deployed token: FungibleToken or AlephXtf                             *)
(***************************************************************************)
InitToken ==
    /\ \E supply \in Supplies, deployer \in Users :
          \/ /\ deployed = ft_new(supply, deployer)
             /\ token_last = TokenMsg("new", NoAccount, deployer, NoAccount, NoAccount, supply,
                                      RetV(deployed, "Ok", 0, <<>>))
          \/ /\ deployed = xtf_new(supply, deployer)
             /\ token_last = TokenMsg("new", NoAccount, deployer, NoAccount, NoAccount, supply,
                                      RetV(deployed, "Ok", 0, <<>>))
    /\ ledgers = [t \in EscrowTokens |-> ft_new(0, "alice")]
    /\ EscrowIdle
    /\ EtfIdle
    /\ frame = NoFrame

MintTo ==
    /\ deployed.contract = "FungibleToken"
    /\ \E caller \in Users, to \in Users, value \in TokenValues :
          LET r == mint_to(deployed, caller, to, value) IN
          /\ deployed' = r.self
          /\ token_last' = TokenMsg("mint_to", NoAccount, caller, NoAccount, to, value, r)
    /\ UNCHANGED <<frame, ledgers, escrow_vars, etf_vars>>

FtTransfer ==
    /\ deployed.contract = "FungibleToken"
    /\ \E caller \in Users, to \in Users, value \in TokenValues :
          LET r == ft_transfer(deployed, caller, to, value) IN
          /\ deployed' = r.self
          /\ token_last' = TokenMsg("transfer", NoAccount, caller, NoAccount, to, value, r)
    /\ UNCHANGED <<frame, ledgers, escrow_vars, etf_vars>>

FtTransferFrom ==
    /\ deployed.contract = "FungibleToken"
    /\ \E caller \in Users, from \in Users, to \in Users, value \in TokenValues :
          LET r == ft_transfer_from(deployed, caller, from, to, value) IN
          /\ deployed' = r.self
          /\ token_last' = TokenMsg("transfer_from", NoAccount, caller, from, to, value, r)
    /\ UNCHANGED <<frame, ledgers, escrow_vars, etf_vars>>

XtfTransfer ==
    /\ deployed.contract = "AlephXtf"
    /\ \E caller \in Users, to \in Users, value \in TokenValues :
          LET r == xtf_transfer(deployed, caller, to, value) IN
          /\ deployed' = r.self
          /\ token_last' = TokenMsg("transfer", NoAccount, caller, NoAccount, to, value, r)
    /\ UNCHANGED <<frame, ledgers, escrow_vars, etf_vars>>

NextToken == MintTo \/ FtTransfer \/ FtTransferFrom \/ XtfTransfer

SpecToken == InitToken /\ [][NextToken]_vars

(***************************************************************************)
(* The Escrow with a FungibleToken deployed at every token address: the    *)
(* outbound calls of a message run on the ledgers, and users move their    *)
(* tokens on the ledgers between Escrow messages.                          *)
(***************************************************************************)
InitCustody ==
    /\ \E supported_tokens \in Whitelists, deployer \in Users, supply \in Supplies :
          LET self == escrow_new(supported_tokens, deployer) IN
          /\ tokens = self.tokens
          /\ escrow_balances = self.balances
          /\ admin = self.admin
          /\ escrow_last = EscrowMsg("new", deployer, NoAccount, 0, NoAccount, FALSE,
                                     Ret(self, "Ok", <<>>))
          /\ ledgers = [t \in EscrowTokens |-> ft_new(supply, deployer)]
    /\ deployed = ft_new(0, "alice")
    /\ token_last = NoTokenMsg
    /\ EtfIdle
    /\ frame = NoFrame

\* the step of an Escrow message whose outcome is r when no call traps and
\* trapped when one does
CustodyCommit(op, caller, token_arg, amount, new_admin, call_traps, err_reverts, r, trapped) ==
    LET remote == run_calls(ledgers, r.calls, 1, err_reverts)
        traps == r.calls # <<>> /\ (call_traps \/ remote.traps)
        out == IF traps THEN trapped ELSE r
    IN  /\ EscrowCommit(out)
        /\ escrow_last' = EscrowMsg(op, caller, token_arg, amount, new_admin, traps, out)
        /\ ledgers' = IF traps THEN ledgers ELSE remote.ledgers
        /\ token_last' = NoTokenMsg
        /\ UNCHANGED <<frame, deployed, etf_vars>>

CustodyDeposit ==
    \E caller \in Users, t \in EscrowTokens, amount \in CustodyAmounts,
       call_traps \in BOOLEAN, err_reverts \in BOOLEAN :
        CustodyCommit("deposit", caller, t, amount, NoAccount, call_traps, err_reverts,
                      deposit(EscrowSelf, caller, t, amount, FALSE),
                      deposit(EscrowSelf, caller, t, amount, TRUE))

CustodyWithdraw ==
    \E caller \in Users, t \in EscrowTokens, amount \in CustodyAmounts,
       call_traps \in BOOLEAN, err_reverts \in BOOLEAN :
        CustodyCommit("withdraw", caller, t, amount, NoAccount, call_traps, err_reverts,
                      withdraw(EscrowSelf, caller, t, amount, FALSE),
                      withdraw(EscrowSelf, caller, t, amount, TRUE))

CustodyWithdrawAll ==
    \E caller \in Users, call_traps \in BOOLEAN, err_reverts \in BOOLEAN :
        CustodyCommit("withdraw_all", caller, NoAccount, 0, NoAccount, call_traps, err_reverts,
                      withdraw_all(EscrowSelf, caller, FALSE),
                      withdraw_all(EscrowSelf, caller, TRUE))

CustodySetAdmin ==
    \E caller \in Users, new_admin \in Users :
        CustodyCommit("set_admin", caller, NoAccount, 0, new_admin, FALSE, FALSE,
                      set_admin(EscrowSelf, caller, new_admin),
                      set_admin(EscrowSelf, caller, new_admin))

\* a user moves tokens on a ledger to another account
LedgerTransfer ==
    \E t \in EscrowTokens, caller \in Users, value \in CustodyAmounts :
    \E to \in LedgerAccounts \ {caller} :
        LET r == ft_transfer(ledgers[t], caller, to, value) IN
        /\ ledgers' = [ledgers EXCEPT ![t] = r.self]
        /\ token_last' = TokenMsg("transfer", t, caller, NoAccount, to, value, r)
        /\ escrow_last' = NoEscrowMsg
        /\ UNCHANGED <<frame, tokens, escrow_balances, admin, deployed, etf_vars>>

NextCustody ==
    CustodyDeposit \/ CustodyWithdraw \/ CustodyWithdrawAll \/ CustodySetAdmin \/ LedgerTransfer

SpecCustody == InitCustody /\ [][NextCustody]_vars

(***************************************************************************)
(* The Escrow re-entered during the outbound call of withdraw.  withdraw    *)
(* is two steps: up to the call (the checks, the read of the balance), and  *)
(* from the return of the call (the write of balance - amount).  Between    *)
(* them the called token, as caller, runs deposit and withdraw messages of  *)
(* its own on the Escrow; each of those is one step.  A trap of the outer   *)
(* call discards every write made since the withdraw began.                 *)
(***************************************************************************)
\* accounts that call the Escrow: users and the token contract tokenA
ReentryCallers == Users \cup {"tokenA"}

InitReentry ==
    /\ \E supported_tokens \in Whitelists, deployer \in Users :
          LET self == escrow_new(supported_tokens, deployer) IN
          /\ tokens = self.tokens
          /\ escrow_balances = self.balances
          /\ admin = self.admin
          /\ escrow_last = EscrowMsg("new", deployer, NoAccount, 0, NoAccount, FALSE,
                                     Ret(self, "Ok", <<>>))
    /\ frame = NoFrame
    /\ EtfIdle
    /\ TokenIdle

\* a message that runs from start to end with no call of the Escrow nested in it
Unnested(op, caller, t, amount, new_admin, call_traps, r) ==
    /\ ~frame.active
    /\ EscrowCommit(r)
    /\ escrow_last' = EscrowMsg(op, caller, t, amount, new_admin, call_traps, r)
    /\ UNCHANGED <<frame, etf_vars, token_vars>>

UnnestedDeposit ==
    \E caller \in ReentryCallers, t \in EscrowTokens, amount \in CustodyAmounts,
       call_traps \in BOOLEAN :
        Unnested("deposit", caller, t, amount, NoAccount, call_traps,
                 deposit(EscrowSelf, caller, t, amount, call_traps))

UnnestedWithdrawAll ==
    \E caller \in ReentryCallers, call_traps \in BOOLEAN :
        Unnested("withdraw_all", caller, NoAccount, 0, NoAccount, call_traps,
                 withdraw_all(EscrowSelf, caller, call_traps))

UnnestedSetAdmin ==
    \E caller \in ReentryCallers, new_admin \in ReentryCallers :
        Unnested("set_admin", caller, NoAccount, 0, new_admin, FALSE,
                 set_admin(EscrowSelf, caller, new_admin))

\* withdraw up to its outbound call: a refusal returns at once; otherwise the
\* balance has been read and the call is in progress
WithdrawCall ==
    /\ ~frame.active
    /\ \E caller \in ReentryCallers, t \in EscrowTokens, amount \in CustodyAmounts :
          LET r == withdraw(EscrowSelf, caller, t, amount, FALSE) IN
          IF r.result # "Ok"
          THEN /\ EscrowCommit(r)
               /\ escrow_last' = EscrowMsg("withdraw", caller, t, amount, NoAccount, FALSE, r)
               /\ frame' = frame
          ELSE /\ frame' = [active |-> TRUE, caller |-> caller, token |-> t,
                            amount |-> amount,
                            balance |-> get_balance(EscrowSelf, t),
                            write |-> get_balance(r.self, t),
                            deposited |-> 0, withdrawn |-> 0, nested |-> 0,
                            saved |-> EscrowSelf]
               /\ UNCHANGED escrow_vars
    /\ UNCHANGED <<etf_vars, token_vars>>

\* the called token deposits while the outer call is in progress
NestedDeposit ==
    /\ frame.active
    /\ frame.nested < MaxNested
    /\ \E amount \in CustodyAmounts :
          LET r == deposit(EscrowSelf, frame.token, frame.token, amount, FALSE) IN
          /\ r.result = "Ok"
          /\ EscrowCommit(r)
          /\ frame' = [frame EXCEPT !.deposited = @ + amount, !.nested = @ + 1]
    /\ UNCHANGED <<escrow_last, etf_vars, token_vars>>

\* the called token, being the admin, withdraws while the outer call is in progress
NestedWithdraw ==
    /\ frame.active
    /\ frame.nested < MaxNested
    /\ \E amount \in CustodyAmounts :
          LET r == withdraw(EscrowSelf, frame.token, frame.token, amount, FALSE) IN
          /\ r.result = "Ok"
          /\ EscrowCommit(r)
          /\ frame' = [frame EXCEPT !.withdrawn = @ + amount, !.nested = @ + 1]
    /\ UNCHANGED <<escrow_last, etf_vars, token_vars>>

\* the outer call returns: withdraw inserts the balance it read before the call
\* less the amount, and returns Ok
WithdrawReturn ==
    /\ frame.active
    /\ escrow_balances' = [escrow_balances EXCEPT ![frame.token] = frame.write]
    /\ escrow_last' = EscrowMsg("withdraw", frame.caller, frame.token, frame.amount,
                                NoAccount, FALSE,
                                Ret(EscrowSelf, "Ok",
                                    <<Call(frame.token, "transfer",
                                           <<frame.caller, frame.amount>>)>>))
    /\ frame' = NoFrame
    /\ UNCHANGED <<tokens, admin, etf_vars, token_vars>>

\* the outer call traps: the invocation aborts and every write since it began
\* is discarded
WithdrawTrap ==
    /\ frame.active
    /\ EscrowCommit(Ret(frame.saved, "Trap", <<>>))
    /\ escrow_last' = EscrowMsg("withdraw", frame.caller, frame.token, frame.amount,
                                NoAccount, TRUE, Ret(frame.saved, "Trap", <<>>))
    /\ frame' = NoFrame
    /\ UNCHANGED <<etf_vars, token_vars>>

NextReentry ==
    \/ UnnestedDeposit \/ UnnestedWithdrawAll \/ UnnestedSetAdmin
    \/ WithdrawCall \/ NestedDeposit \/ NestedWithdraw \/ WithdrawReturn \/ WithdrawTrap

SpecReentry == InitReentry /\ [][NextReentry]_vars

(***************************************************************************)
(* Escrow claims.  In a step, escrow_last' names the message that ran,     *)
(* unprimed variables are the storage before it, primed the storage after. *)
(***************************************************************************)
OthersUnchanged(token) ==
    /\ \A t \in EscrowTokens \ {token} : escrow_balances'[t] = escrow_balances[t]
    /\ admin' = admin
    /\ tokens' = tokens

DepositStep == escrow_last'.op = "deposit"
WithdrawStep == escrow_last'.op = "withdraw"
WithdrawAllStep == escrow_last'.op = "withdraw_all"
SetAdminStep == escrow_last'.op = "set_admin"

\* C1 as stated: a deposit of any amount of a whitelisted token whose outbound
\* call does not trap returns Ok and raises the recorded balance of that token
\* by exactly the amount, leaving the other balances and the admin unchanged.
C1_AsStated ==
    [][(DepositStep /\ contains(tokens, escrow_last'.token) /\ ~escrow_last'.call_traps)
        => /\ escrow_last'.result = "Ok"
           /\ escrow_balances'[escrow_last'.token]
                 = escrow_balances[escrow_last'.token] + escrow_last'.amount
           /\ OthersUnchanged(escrow_last'.token)]_vars

\* C1 amended: the same, provided balance + amount fits the Balance type; when it
\* does not fit, the checked addition aborts the call and no balance changes.
C1_DepositCredits ==
    [][(DepositStep /\ contains(tokens, escrow_last'.token) /\ ~escrow_last'.call_traps)
        => LET t == escrow_last'.token
               a == escrow_last'.amount
           IN  /\ escrow_balances[t] + a <= BalanceMax
                    => /\ escrow_last'.result = "Ok"
                       /\ escrow_balances'[t] = escrow_balances[t] + a
               /\ escrow_balances[t] + a > BalanceMax
                    => /\ escrow_last'.result = "Panic"
                       /\ escrow_balances'[t] = escrow_balances[t]
               /\ OthersUnchanged(t)]_vars

\* a successful deposit of a positive amount on top of a positive balance
C1_Witness ==
    /\ escrow_last.op = "deposit"
    /\ escrow_last.result = "Ok"
    /\ escrow_last.amount > 0
    /\ escrow_balances[escrow_last.token] > escrow_last.amount

\* C2: a deposit of a token outside the whitelist returns UnsupportedToken,
\* issues no outbound call and changes neither a balance nor the admin.
C2_DepositUnsupported ==
    [][(DepositStep /\ ~contains(tokens, escrow_last'.token))
        => /\ escrow_last'.result = "UnsupportedToken"
           /\ escrow_last'.calls = <<>>
           /\ escrow_balances' = escrow_balances
           /\ admin' = admin]_vars

\* a refused deposit of a positive amount while the escrow holds something
C2_Witness ==
    /\ escrow_last.op = "deposit"
    /\ ~contains(tokens, escrow_last.token)
    /\ escrow_last.amount > 0
    /\ escrow_last.result = "UnsupportedToken"
    /\ \E t \in EscrowTokens : escrow_balances[t] > 0

\* C3: withdraw and withdraw_all by a caller other than the admin return
\* TransferFailed, issue no outbound call and leave all balances unchanged.
C3_NonAdminRefused ==
    [][((WithdrawStep \/ WithdrawAllStep) /\ escrow_last'.caller # admin)
        => /\ escrow_last'.result = "TransferFailed"
           /\ escrow_last'.calls = <<>>
           /\ escrow_balances' = escrow_balances]_vars

\* a non-admin withdraw of a token outside the whitelist, above its balance,
\* while the escrow holds something
C3_Witness ==
    /\ escrow_last.op = "withdraw"
    /\ escrow_last.caller # admin
    /\ escrow_last.result = "TransferFailed"
    /\ ~contains(tokens, escrow_last.token)
    /\ escrow_last.amount > escrow_balances[escrow_last.token]
    /\ \E t \in EscrowTokens : escrow_balances[t] > 0

\* C4 as stated: an admin withdraw of a whitelisted token returns Ok and lowers
\* the balance by the amount when the balance covers it, returns
\* InsufficientBalance and changes nothing otherwise; no balance is negative.
C4_AsStated ==
    [][/\ (WithdrawStep /\ escrow_last'.caller = admin /\ contains(tokens, escrow_last'.token))
          => LET t == escrow_last'.token
                 a == escrow_last'.amount
             IN  /\ escrow_balances[t] >= a
                      => /\ escrow_last'.result = "Ok"
                         /\ escrow_balances'[t] = escrow_balances[t] - a
                 /\ escrow_balances[t] < a
                      => /\ escrow_last'.result = "InsufficientBalance"
                         /\ escrow_balances'[t] = escrow_balances[t]
       /\ \A t \in EscrowTokens : escrow_balances'[t] >= 0]_vars

\* C4 amended: the covered case returns Ok and lowers the balance only when the
\* outbound transfer call does not trap; when it traps the call aborts and the
\* balance stays.
C4_WithdrawDebits ==
    [][/\ (WithdrawStep /\ escrow_last'.caller = admin /\ contains(tokens, escrow_last'.token))
          => LET t == escrow_last'.token
                 a == escrow_last'.amount
             IN  /\ (escrow_balances[t] >= a /\ ~escrow_last'.call_traps)
                      => /\ escrow_last'.result = "Ok"
                         /\ escrow_balances'[t] = escrow_balances[t] - a
                 /\ (escrow_balances[t] >= a /\ escrow_last'.call_traps)
                      => /\ escrow_last'.result = "Trap"
                         /\ escrow_balances'[t] = escrow_balances[t]
                 /\ escrow_balances[t] < a
                      => /\ escrow_last'.result = "InsufficientBalance"
                         /\ escrow_last'.calls = <<>>
                         /\ escrow_balances'[t] = escrow_balances[t]
                 /\ OthersUnchanged(t)
       /\ \A t \in EscrowTokens : escrow_balances'[t] >= 0]_vars

\* deposit 50, withdraw 30, then the second withdraw 30 is refused at balance 20
C4_Witness ==
    /\ escrow_last.op = "withdraw"
    /\ escrow_last.caller = admin
    /\ escrow_last.amount = 30
    /\ escrow_last.result = "InsufficientBalance"
    /\ escrow_balances[escrow_last.token] = 20

\* the outbound calls of the last message addressed to token t
CallsTo(calls, t) == {i \in 1..Len(calls) : calls[i].callee = t}

\* C5: withdraw_all by the admin, no outbound call trapping, returns Ok, leaves
\* every whitelisted balance 0, and issues exactly one transfer of the full
\* balance to the caller for each whitelisted token that held something and
\* none for the others.
C5_WithdrawAllSweeps ==
    [][(WithdrawAllStep /\ escrow_last'.caller = admin /\ ~escrow_last'.call_traps)
        => LET calls == escrow_last'.calls IN
           /\ escrow_last'.result = "Ok"
           /\ \A t \in Range(tokens) : escrow_balances'[t] = 0
           /\ \A t \in EscrowTokens \ Range(tokens) : escrow_balances'[t] = escrow_balances[t]
           /\ \A t \in Range(tokens) :
                 IF escrow_balances[t] > 0
                 THEN /\ Cardinality(CallsTo(calls, t)) = 1
                      /\ \A i \in CallsTo(calls, t) :
                            calls[i] = Call(t, "transfer",
                                            <<escrow_last'.caller, escrow_balances[t]>>)
                 ELSE CallsTo(calls, t) = {}
           /\ \A i \in 1..Len(calls) : calls[i].callee \in Range(tokens)]_vars

\* a sweep of a whitelist that lists tokenA twice, after tokenA held something
C5_Witness ==
    /\ escrow_last.op = "withdraw_all"
    /\ escrow_last.result = "Ok"
    /\ tokens = <<"tokenA", "tokenA">>
    /\ Len(escrow_last.calls) = 1
    /\ escrow_last.calls[1].args[2] = 50

\* C6: the admin is the deployer after construction; set_admin by the admin
\* installs the new admin; set_admin by anyone else changes nothing and returns
\* normally; no other step changes the admin.
C6_AdminIdentity ==
    /\ [](escrow_last.op = "new" => admin = escrow_last.caller)
    /\ [][/\ (SetAdminStep /\ escrow_last'.caller = admin)
              => (admin' = escrow_last'.new_admin /\ escrow_last'.result = "Unit")
          /\ (SetAdminStep /\ escrow_last'.caller # admin)
              => (admin' = admin /\ escrow_last'.result = "Unit"
                  /\ escrow_balances' = escrow_balances)
          /\ admin' # admin => (SetAdminStep /\ escrow_last'.caller = admin)]_vars

\* the admin has handed the role to another account
C6_Witness ==
    /\ escrow_last.op = "set_admin"
    /\ escrow_last.caller # escrow_last.new_admin
    /\ admin = escrow_last.new_admin

(***************************************************************************)
(* EtfEscrow claims.  In a step, etf_last' names the message that ran,     *)
(* unprimed variables are the storage before it, primed the storage after; *)
(* etf_prev is the balance table before the message named by etf_last.     *)
(***************************************************************************)
OpenVaultStep == etf_last'.op = "open_vault"
CloseVaultStep == etf_last'.op = "close_vault"

\* the ids registered to owner o
VaultsOf(o) == {v \in 0..U8Max : vaults[v] = o}

\* C7: in every reachable state the per-owner count of every account equals the
\* number of registered vaults whose registered owner it is, and is not negative.
C7_CountsMatchRegistry ==
    \A o \in Users :
        /\ vaults_quantity_per_owner[o] = Cardinality(VaultsOf(o))
        /\ vaults_quantity_per_owner[o] >= 0

\* a vault was closed by an account that is not its owner while another vault
\* of that owner stays open
C7_Witness ==
    /\ etf_last.op = "close_vault"
    /\ etf_last.result = "Ok"
    /\ etf_last.caller = "bob"
    /\ vaults_quantity_per_owner["alice"] = 1
    /\ vaults_quantity_per_owner["bob"] = 0
    /\ vaults_quantity = 2

\* positions of the basket that have both a token and an amount
Positions == 1..(IF Len(required_tokens) < Len(required_balances)
                 THEN Len(required_tokens) ELSE Len(required_balances))

\* C8 as stated: a successful open_vault by c immediately followed by a
\* successful close_vault of the vault just opened, by c, leaves every required
\* token's recorded balance and c's share balance as they were before the open.
C8_AsStated ==
    [][(/\ etf_last.op = "open_vault" /\ etf_last.result = "Ok"
        /\ CloseVaultStep /\ etf_last'.result = "Ok"
        /\ etf_last'.vault = etf_last.ret
        /\ etf_last'.caller = etf_last.caller)
        => /\ \A i \in Positions : etf_balances'[required_tokens[i]] = etf_prev[required_tokens[i]]
           /\ etf_balances'[etf_last.caller] = etf_prev[etf_last.caller]]_vars

\* the first position whose recorded balance is below its required amount (0: none)
FirstShort ==
    LET short == {i \in Positions : etf_balances[required_tokens[i]] < required_balances[i]}
    IN  IF short = {} THEN 0 ELSE CHOOSE i \in short : \A j \in short : i <= j

EtfUnchanged ==
    /\ vaults' = vaults
    /\ vaults_quantity' = vaults_quantity
    /\ vaults_quantity_per_owner' = vaults_quantity_per_owner
    /\ etf_balances' = etf_balances
    /\ total_supply' = total_supply

\* C9 as stated: an open_vault with any required token's recorded balance below
\* its required amount returns InsufficientBalance and leaves the registry, the
\* counter, the per-owner counts and the balance table as they were.
C9_AsStated ==
    [][(OpenVaultStep /\ FirstShort > 0)
        => (etf_last'.result = "InsufficientBalance" /\ EtfUnchanged)]_vars

\* C9 amended: such an open_vault leaves all of that state as it was, and returns
\* InsufficientBalance unless the short token follows a token whose outbound call
\* traps, in which case the invocation aborts.
C9_OpenShortfall ==
    [][(OpenVaultStep /\ FirstShort > 0)
        => /\ EtfUnchanged
           /\ IF etf_last'.call_traps /\ FirstShort > 1
              THEN etf_last'.result = "Trap"
              ELSE etf_last'.result = "InsufficientBalance"]_vars

\* an open_vault refused at the second token of the basket, after the check of
\* the first token passed and its call was made
C9_Witness ==
    /\ etf_last.op = "open_vault"
    /\ etf_last.result = "InsufficientBalance"
    /\ Len(required_tokens) = 2
    /\ Len(etf_last.calls) = 1
    /\ etf_balances[required_tokens[2]] < required_balances[2]

\* the required amounts of token t summed over the basket
RECURSIVE RequiredOf(_, _)
RequiredOf(t, i) ==
    IF i = 0 THEN 0
    ELSE (IF required_tokens[i] = t THEN required_balances[i] ELSE 0) + RequiredOf(t, i - 1)

\* C10 as stated, read in its favour (no outbound call traps, the counter and
\* the caller's shares are below the top of their types): an open_vault with an
\* unregistered id and every required balance covered returns Ok, raises the
\* counter by 1, registers one new vault owned by owner, raises owner's count by
\* 1, raises each required token's recorded balance by exactly its required
\* amount and raises the caller's share balance by exactly SHARES.
C10_AsStated ==
    [][(/\ OpenVaultStep
        /\ vaults[etf_last'.vault] = NoAccount
        /\ Len(required_tokens) = Len(required_balances)
        /\ FirstShort = 0
        /\ ~etf_last'.call_traps
        /\ vaults_quantity < U8Max
        /\ etf_balances[etf_last'.caller] + SHARES <= BalanceMax)
        => /\ etf_last'.result = "Ok"
           /\ vaults_quantity' = vaults_quantity + 1
           /\ \E v \in 0..U8Max :
                 /\ vaults[v] = NoAccount
                 /\ vaults' = [vaults EXCEPT ![v] = etf_last'.owner]
           /\ vaults_quantity_per_owner' =
                 [vaults_quantity_per_owner EXCEPT ![etf_last'.owner] = @ + 1]
           /\ \A t \in Range(required_tokens) :
                 etf_balances'[t] = etf_balances[t] + RequiredOf(t, Len(required_tokens))
           /\ etf_balances'[etf_last'.caller] = etf_balances[etf_last'.caller] + SHARES]_vars

TransferStep == etf_last'.op = "transfer"
TransferFromStep == etf_last'.op = "transfer_from"

\* the account a pool-token transfer debits: the caller of transfer, the from of
\* transfer_from
Sender(msg) == IF msg.op = "transfer" THEN msg.caller ELSE msg.from

\* C11: no transfer or transfer_from changes total_supply, no balance is ever
\* negative, and a transfer or transfer_from of more than the sender's balance
\* returns InsufficientBalance and leaves every balance unchanged.
C11_PoolTokenSafety ==
    [][/\ (TransferStep \/ TransferFromStep)
          => /\ total_supply' = total_supply
             /\ etf_balances[Sender(etf_last')] < etf_last'.value
                  => /\ etf_last'.result = "InsufficientBalance"
                     /\ etf_balances' = etf_balances
       /\ \A a \in EtfAccounts : etf_balances'[a] >= 0]_vars

\* a transfer_from by a third account of more than from holds, refused while
\* another account holds shares
C11_Witness ==
    /\ etf_last.op = "transfer_from"
    /\ etf_last.caller # etf_last.from
    /\ etf_last.result = "InsufficientBalance"
    /\ etf_balances[etf_last.from] < etf_last.value
    /\ \E a \in EtfAccounts : etf_balances[a] > 0

RECURSIVE Sum(_, _)
Sum(f, S) == IF S = {} THEN 0 ELSE LET x == CHOOSE y \in S : TRUE IN f[x] + Sum(f, S \ {x})

\* C12 as stated: a successful transfer or transfer_from leaves the sum of all
\* balances unchanged, debits the sender by the value and credits the receiver
\* by the value; with sender and receiver the same account its balance is unchanged.
C12_AsStated ==
    [][((TransferStep \/ TransferFromStep) /\ etf_last'.result = "Ok")
        => LET from == Sender(etf_last')
               to == etf_last'.to
               value == etf_last'.value
           IN  /\ Sum(etf_balances', EtfAccounts) = Sum(etf_balances, EtfAccounts)
               /\ from # to => /\ etf_balances'[from] = etf_balances[from] - value
                               /\ etf_balances'[to] = etf_balances[to] + value
               /\ from = to => etf_balances'[from] = etf_balances[from]]_vars

\* C13 as stated: a successful close_vault leaves the caller's share balance
\* exactly SHARES lower and changes no other account's balance.
C13_AsStated ==
    [][(CloseVaultStep /\ etf_last'.result = "Ok")
        => /\ etf_balances'[etf_last'.caller] = etf_balances[etf_last'.caller] - SHARES
           /\ \A a \in EtfAccounts \ {etf_last'.caller} :
                 etf_balances'[a] = etf_balances[a]]_vars

Registered == {v \in 0..U8Max : vaults[v] # NoAccount}

\* C14: in every reachable state the recorded balance of every required token
\* is at least the number of registered vaults times its required amount.
C14_CollateralBacking ==
    \A i \in Positions :
        etf_balances[required_tokens[i]] >= Cardinality(Registered) * required_balances[i]

\* shares were moved out of the balance of a required token by a third account
\* while vaults are registered
C14_Witness ==
    /\ etf_last.op = "transfer_from"
    /\ etf_last.result = "Ok"
    /\ etf_last.value > 0
    /\ etf_last.from \in Range(required_tokens)
    /\ etf_last.from # etf_last.to
    /\ etf_last.caller # etf_last.from
    /\ Cardinality(Registered) = 2

\* C16: close_vault of an unregistered id aborts and changes nothing;
\* close_vault of a registered id by a caller holding fewer than SHARES returns
\* InsufficientBalance, issues no outbound call and changes nothing.
C16_CloseVaultFailures ==
    [][CloseVaultStep
        => /\ vaults[etf_last'.vault] = NoAccount
                => /\ etf_last'.result = "Panic"
                   /\ etf_last'.calls = <<>>
                   /\ EtfUnchanged
           /\ (vaults[etf_last'.vault] # NoAccount
               /\ etf_balances[etf_last'.caller] < SHARES)
                => /\ etf_last'.result = "InsufficientBalance"
                   /\ etf_last'.calls = <<>>
                   /\ EtfUnchanged]_vars

\* a close_vault of a registered vault refused for want of shares
C16_Witness ==
    /\ etf_last.op = "close_vault"
    /\ etf_last.result = "InsufficientBalance"
    /\ vaults[etf_last.vault] # NoAccount
    /\ etf_balances[etf_last.caller] < SHARES

\* C19: open_vault returns VaultAlreadyExists exactly when the given id is
\* registered; on success the id registered and returned is the counter before
\* the call, whatever the given id, and that id was not registered; every
\* registered id is below the counter; the counter starts at 0 and never decreases.
C19_VaultIdAssignment ==
    /\ [](etf_last.op = "new" => vaults_quantity = 0)
    /\ [](\A v \in Registered : v < vaults_quantity)
    /\ [][/\ OpenVaultStep
              => /\ etf_last'.result = "VaultAlreadyExists"
                      <=> vaults[etf_last'.vault] # NoAccount
                 /\ etf_last'.result = "Ok"
                      => /\ etf_last'.ret = vaults_quantity
                         /\ vaults[vaults_quantity] = NoAccount
                         /\ vaults' = [vaults EXCEPT ![vaults_quantity] = etf_last'.owner]
          /\ vaults_quantity' >= vaults_quantity]_vars

\* after vault 0 was closed, an open_vault given id 0 registered id 1
C19_Witness ==
    /\ etf_last.op = "open_vault"
    /\ etf_last.result = "Ok"
    /\ etf_last.vault = 0
    /\ etf_last.ret = 1
    /\ vaults[0] = NoAccount
    /\ vaults_quantity = 2

C15_AsStated ==
    [][escrow_last'.op \in {"deposit", "withdraw", "withdraw_all"}
        => /\ \A t \in Range(tokens) :
                 escrow_balances'[t] - escrow_balances[t]
                     = ledgers'[t].balances[EscrowAccount] - ledgers[t].balances[EscrowAccount]
           /\ (escrow_last'.op = "deposit" /\ escrow_last'.result = "Ok")
                => LET t == escrow_last'.token
                       caller == escrow_last'.caller
                       amount == escrow_last'.amount
                   IN  /\ ledgers'[t].balances[caller] = ledgers[t].balances[caller] - amount
                       /\ ledgers'[t].balances[EscrowAccount]
                              = ledgers[t].balances[EscrowAccount] + amount]_vars

\* C17 as stated: a transfer (FungibleToken or AlephXtf) of a value not above
\* the caller's balance b returns Ok(b - value), leaves the caller with
\* b - value and the receiver with value more, and leaves total_supply unchanged.
C17_AsStated ==
    [][(token_last'.op = "transfer"
        /\ token_last'.value <= deployed.balances[token_last'.caller])
        => LET caller == token_last'.caller
               to == token_last'.to
               value == token_last'.value
               b == deployed.balances[caller]
           IN  /\ token_last'.result = "Ok"
               /\ token_last'.ret = b - value
               /\ deployed'.balances[caller] = b - value
               /\ deployed'.balances[to] = deployed.balances[to] + value
               /\ deployed'.total_supply = deployed.total_supply]_vars

MintToStep == token_last'.op = "mint_to"

\* after FungibleToken::new the deployer holds the supply, every other account
\* holds 0 and total_supply is the supply
ConstructedWithSupply ==
    (token_last.op = "new" /\ deployed.contract = "FungibleToken")
        => /\ deployed.owner = token_last.caller
           /\ deployed.total_supply = token_last.value
           /\ \A a \in LedgerAccounts :
                 deployed.balances[a] = IF a = token_last.caller THEN token_last.value ELSE 0

\* C18 as stated: mint_to by the owner raises the balance of to and
\* total_supply by exactly the value and changes no other balance; by any
\* other account it aborts and changes nothing; construction leaves the
\* deployer with the supply.
C18_AsStated ==
    /\ []ConstructedWithSupply
    /\ [][MintToStep
          => LET caller == token_last'.caller
                 to == token_last'.to
                 value == token_last'.value
             IN  /\ caller = deployed.owner
                      => /\ deployed'.balances[to] = deployed.balances[to] + value
                         /\ deployed'.total_supply = deployed.total_supply + value
                         /\ \A a \in LedgerAccounts \ {to} :
                               deployed'.balances[a] = deployed.balances[a]
                 /\ caller # deployed.owner
                      => /\ token_last'.result = "Panic"
                         /\ deployed' = deployed]_vars

\* C18: mint_to by the owner, when the balance of to plus the value and
\* total_supply plus the value both fit in Balance, raises the balance of to
\* and total_supply by exactly the value and changes no other balance; by the
\* owner when either sum does not fit, or by any other account, it aborts and
\* changes nothing; construction leaves the deployer with the supply.
C18_MintTo ==
    /\ []ConstructedWithSupply
    /\ [][MintToStep
          => LET caller == token_last'.caller
                 to == token_last'.to
                 value == token_last'.value
                 fits == /\ deployed.balances[to] + value <= BalanceMax
                         /\ deployed.total_supply + value <= BalanceMax
             IN  /\ (caller = deployed.owner /\ fits)
                      => /\ token_last'.result = "Unit"
                         /\ deployed'.balances[to] = deployed.balances[to] + value
                         /\ deployed'.total_supply = deployed.total_supply + value
                         /\ \A a \in LedgerAccounts \ {to} :
                               deployed'.balances[a] = deployed.balances[a]
                 /\ (caller # deployed.owner \/ ~fits)
                      => /\ token_last'.result = "Panic"
                         /\ deployed' = deployed]_vars

\* the owner minted a positive value to another account that already held tokens
C18_Witness ==
    /\ token_last.op = "mint_to"
    /\ token_last.result = "Unit"
    /\ token_last.caller = deployed.owner
    /\ token_last.to # token_last.caller
    /\ token_last.value > 0
    /\ deployed.balances[token_last.to] > token_last.value
    /\ deployed.total_supply > deployed.balances[token_last.to]

(***************************************************************************)
(* EtfEscrow bootstrapping and Escrow whitelist confinement                *)
(***************************************************************************)
\* the basket holds a positive required amount, at any position of required_balances
PositiveAmount == \E i \in 1..Len(required_balances) : required_balances[i] > 0

\* a token of the basket has a positive required amount
PositiveRequired == \E i \in Positions : required_balances[i] > 0

\* every entry of the balance table is 0, the counter is 0, no vault is registered
NothingOpened ==
    /\ \A a \in EtfAccounts : etf_balances[a] = 0
    /\ vaults_quantity = 0
    /\ Registered = {}

\* C22 as stated: with a positive required amount in the basket, in every
\* reachable state every balance is 0, the counter is 0 and no vault is
\* registered, and every open_vault fails with InsufficientBalance.
C22_AsStated ==
    /\ [](PositiveAmount => NothingOpened)
    /\ [][(PositiveAmount /\ OpenVaultStep)
            => etf_last'.result = "InsufficientBalance"]_vars

\* C22 amended: with a positive required amount for a token of the basket, in
\* every reachable state every balance is 0, the counter is 0 and no vault is
\* registered, and every open_vault fails: with InsufficientBalance, or by
\* aborting when the outbound call made for an earlier token traps.
C22_Bootstrapping ==
    /\ [](PositiveRequired => NothingOpened)
    /\ [][(PositiveRequired /\ OpenVaultStep)
            => IF etf_last'.call_traps /\ FirstShort > 1
               THEN etf_last'.result = "Trap"
               ELSE etf_last'.result = "InsufficientBalance"]_vars

\* under a one-token basket with a positive amount, an open_vault by the token
\* contract itself was refused before any call was made
C22_Witness ==
    /\ PositiveRequired
    /\ Len(required_tokens) = 1
    /\ etf_last.op = "open_vault"
    /\ etf_last.caller = required_tokens[1]
    /\ etf_last.result = "InsufficientBalance"
    /\ etf_last.calls = <<>>

\* C23: the whitelist is the constructor argument in every reachable state,
\* and the recorded balance of every token outside the whitelist is 0.
C23_WhitelistConfinement ==
    /\ tokens \in Whitelists
    /\ [][tokens' = tokens]_vars
    /\ [](\A t \in EscrowTokens : ~contains(tokens, t) => get_balance(EscrowSelf, t) = 0)

\* a deposit of a token outside the whitelist was refused while the Escrow
\* records a balance of a whitelisted token
C23_Witness ==
    /\ escrow_last.op = "deposit"
    /\ ~contains(tokens, escrow_last.token)
    /\ escrow_last.amount > 0
    /\ escrow_last.result = "UnsupportedToken"
    /\ \E t \in Range(tokens) : get_balance(EscrowSelf, t) > 0

(***************************************************************************)
(* Escrow under re-entrancy                                                *)
(***************************************************************************)
\* the outer withdraw returns Ok after calls nested in its outbound call completed
WithdrawReturnStep ==
    /\ frame.active
    /\ frame.nested > 0
    /\ ~frame'.active
    /\ escrow_last'.result = "Ok"

\* C21 as stated: when deposits and withdraws of token t nested in the outbound
\* call of an admin withdraw(t, a) completed, then after the outer call returns
\* the recorded balance of t is the balance before the call plus every amount
\* deposited minus every amount withdrawn (a included), and the balance never
\* went down by less than was paid out.
C21_AsStated ==
    [][WithdrawReturnStep
        => /\ escrow_balances'[frame.token]
                  = frame.balance + frame.deposited - (frame.amount + frame.withdrawn)
           /\ frame.balance + frame.deposited - escrow_balances'[frame.token]
                  >= frame.amount + frame.withdrawn]_vars

====
